---- MODULE Spec2Model ----
(***************************************************************************)
(* gobank: the account store (storage.go) and the HTTP gateway (api.go).   *)
(*                                                                         *)
(* The store is the `account` table, one row per id.  A request is served  *)
(* by one worker; a step of a worker is the local computation up to and    *)
(* including its next SQL statement, so statements of concurrent requests  *)
(* interleave exactly at statement boundaries.  Under Spec one worker      *)
(* serves requests one after the other; under SpecConc two workers serve   *)
(* requests concurrently.  The backend is taken to be reachable (no        *)
(* BackendError); created_at is not modelled.                              *)
(***************************************************************************)
EXTENDS Integers, Sequences, FiniteSets, TLC

VARIABLES store, nextId, numberSeq, console, pc, req, resp, invoked, herr, lostWrite

vars == <<store, nextId, numberSeq, console, pc, req, resp, invoked, herr, lostWrite>>

\* ------------------------------------------------------------------ bounds
MaxAccounts == 2
MaxAmount == 1

Workers == {1, 2}

\* ------------------------------------------------------------------ data
JWT_SECRET == "secret"

NoAccount == [id |-> 0, firstName |-> "", lastName |-> "", number |-> 0, balance |-> 0]

\* A JSON number is held in halves (the value 1.5 is half = 3), so that a
\* claim need not be a whole number.
Num(h) == [kind |-> "num", half |-> h]
Str == [kind |-> "str", half |-> 0]
NoClaim == [kind |-> "absent", half |-> 0]

ClaimKeys == {"accountNumber", "AccountNumber", "ExpiresAt"}
NoClaims == [k \in ClaimKeys |-> NoClaim]

SignedToken(alg, key, claims) == [form |-> "jwt", alg |-> alg, key |-> key, claims |-> claims]
EmptyHeader == [form |-> "empty", alg |-> "", key |-> "", claims |-> NoClaims]
Garbage == [form |-> "malformed", alg |-> "", key |-> "", claims |-> NoClaims]

createJWT(account) ==
    SignedToken("HS256", JWT_SECRET,
        [k \in ClaimKeys |->
            CASE k = "ExpiresAt" -> Num(2 * 15000)
              [] k = "AccountNumber" -> Num(2 * account.number)
              [] OTHER -> NoClaim])

HMACAlgs == {"HS256", "HS384", "HS512"}

\* jwt.Parse with the key function of validateJWT: the token must have the
\* three-segment form, an HMAC signing method, and a signature made with JWT_SECRET.
validateJWT(tok) ==
    IF tok.form # "jwt" THEN [err |-> TRUE, valid |-> FALSE, claims |-> NoClaims]
    ELSE IF tok.alg \notin HMACAlgs THEN [err |-> TRUE, valid |-> FALSE, claims |-> NoClaims]
    ELSE IF tok.key # JWT_SECRET THEN [err |-> TRUE, valid |-> FALSE, claims |-> NoClaims]
    ELSE [err |-> FALSE, valid |-> TRUE, claims |-> tok.claims]

\* int64(f) of a float64 f >= 0 held in halves: truncation toward zero.
Int64OfFloat(half) == half \div 2

\* ------------------------------------------------------------------ strconv.Atoi
Digits == {ToString(d) : d \in 0..9}
DigitVal(c) == CHOOSE d \in 0..9 : ToString(d) = c

RECURSIVE DigitsValue(_, _)
DigitsValue(s, acc) ==
    IF s = <<>> THEN acc ELSE DigitsValue(Tail(s), 10 * acc + DigitVal(Head(s)))

\* Atoi: an optional sign, then one or more decimal digits; 0 and an error otherwise.
Atoi(s) ==
    LET signed == Len(s) > 0 /\ Head(s) \in {"-", "+"}
        body == IF signed THEN Tail(s) ELSE s
    IN IF body = <<>> \/ \E i \in 1..Len(body) : body[i] \notin Digits
       THEN [val |-> 0, err |-> TRUE]
       ELSE [val |-> IF signed /\ Head(s) = "-" THEN 0 - DigitsValue(body, 0)
                     ELSE DigitsValue(body, 0),
             err |-> FALSE]

RECURSIVE LeadingDigits(_)
LeadingDigits(s) ==
    IF s = <<>> \/ Head(s) \notin Digits THEN <<>>
    ELSE <<Head(s)>> \o LeadingDigits(Tail(s))

\* getId handing back, with its error, the digits read before the bad character.
getIdLeading(r) ==
    LET a == Atoi(r.id)
    IN [id |-> IF a.err THEN DigitsValue(LeadingDigits(r.id), 0) ELSE a.val,
        err |-> a.err, msg |-> <<"Invalid id given">> \o r.id]

\* mux.Vars(r)["id"] through Atoi: the id, and the error naming the string.
getId(r) ==
    LET a == Atoi(r.id)
    IN [id |-> a.val, err |-> a.err, msg |-> <<"Invalid id given">> \o r.id]

\* ------------------------------------------------------------------ storage.go
NotFoundMsg(id) == <<"account", ToString(id), "not found">>

GetAccounts(st) == {st[i] : i \in DOMAIN st}

GetAccountByID(st, id) ==
    IF id \in DOMAIN st
    THEN [err |-> FALSE, msg |-> <<>>, account |-> st[id]]
    ELSE [err |-> TRUE, msg |-> NotFoundMsg(id), account |-> NoAccount]

\* number and balance as the account-creation path derives them: the next
\* value of the sequence.
NewAccount(firstName, lastName, seq) ==
    [id |-> 0, firstName |-> firstName, lastName |-> lastName, number |-> seq, balance |-> seq]

\* insert: the id is the next serial value, the other columns are the arguments.
CreateAccount(st, id, account) ==
    [i \in DOMAIN st \cup {id} |->
        IF i = id THEN [account EXCEPT !.id = id] ELSE st[i]]

\* The update without its where clause.
UpdateAccountStmtAll(st, account) ==
    [i \in DOMAIN st |->
        [st[i] EXCEPT !.firstName = account.firstName, !.lastName = account.lastName]]

\* The update resetting the number column as well.
UpdateAccountStmtNumber(st, account) ==
    [i \in DOMAIN st |->
        IF i = account.id
        THEN [st[i] EXCEPT !.firstName = account.firstName, !.lastName = account.lastName,
                           !.number = 0]
        ELSE st[i]]

\* update account set first_name = $2, last_name = $3 where id = $1
UpdateAccountStmt(st, account) ==
    [i \in DOMAIN st |->
        IF i = account.id
        THEN [st[i] EXCEPT !.firstName = account.firstName, !.lastName = account.lastName]
        ELSE st[i]]

\* The delete failing when no row matches.
DeleteAccountStrict(st, id) ==
    IF id \in DOMAIN st
    THEN [err |-> FALSE, msg |-> <<>>, st |-> [i \in DOMAIN st \ {id} |-> st[i]]]
    ELSE [err |-> TRUE, msg |-> NotFoundMsg(id), st |-> st]

\* delete from account where id = $1: no error when no row matches.
DeleteAccount(st, id) ==
    [err |-> FALSE, msg |-> <<>>, st |-> [i \in DOMAIN st \ {id} |-> st[i]]]

\* The transfer as a credit.
TransferStmtAdd(st, detail) ==
    [i \in DOMAIN st |->
        IF i = detail.toAccount
        THEN [st[i] EXCEPT !.balance = st[i].balance + detail.amount]
        ELSE st[i]]

\* update account set balance = $1 where id = $2
TransferStmt(st, detail) ==
    [i \in DOMAIN st |->
        IF i = detail.toAccount THEN [st[i] EXCEPT !.balance = detail.amount] ELSE st[i]]

\* ------------------------------------------------------------------ api.go: responses
NoResp == [status |-> 0, kind |-> "none", msg |-> <<>>, account |-> NoAccount, accounts |-> {}, deleted |-> 0]

\* The handler panicked: net/http recovers, writes no response and drops the connection.
Aborted == [NoResp EXCEPT !.kind = "aborted"]

\* The handler returned without writing: net/http sends 200 with an empty body.
Empty == [NoResp EXCEPT !.status = 200, !.kind = "empty"]

\* WriteJSON(w, status, ApiError{Error: msg})
WriteJSONError(status, msg) == [NoResp EXCEPT !.status = status, !.kind = "Error", !.msg = msg]

permissionDenied == WriteJSONError(403, <<"Invalid token">>)

NoErr == [err |-> FALSE, msg |-> <<>>]
Err(msg) == [err |-> TRUE, msg |-> msg]

\* What an apiFunc hands back: its error, and the response it wrote (Empty if none).
Return(e, written) == [err |-> e.err, msg |-> e.msg, written |-> written]

makeHandleFunc(f) ==
    IF f.err THEN WriteJSONError(400, f.msg) ELSE f.written

\* The default case returning nil.
MethodNotAllowedNil(r) == NoErr

\* fmt.Errorf("Method not allowed %s", r.Method)
MethodNotAllowed(r) == Err(<<"Method not allowed", r.method>>)

\* json.NewDecoder(r.Body).Decode: fails on an empty or malformed body; fields
\* the body does not carry keep their zero value.
DecodeMsg == <<"json: cannot decode request body">>
Decode(body) == IF body.valid THEN NoErr ELSE Err(DecodeMsg)

\* ------------------------------------------------------------------ api.go: the gate
\* "denied": permissionDenied was written; "panic": the type assertion on the
\* claim failed; "pass": handleFunc is called.  The error of getId is dropped
\* (the test after it re-reads the error of validateJWT, nil at that point),
\* so a malformed id is looked up as id 0.
withJWTAuth(r, st) ==
    LET v == validateJWT(r.token)
        userID == getId(r).id
        a == GetAccountByID(st, userID)
        c == v.claims["accountNumber"]
    IN IF v.err THEN "denied"
       ELSE IF ~v.valid THEN "denied"
       ELSE IF v.err THEN "denied"
       ELSE IF a.err THEN "denied"
       ELSE IF c.kind # "num" THEN "panic"
       ELSE IF a.account.number # Int64OfFloat(c.half) THEN "denied"
       ELSE "pass"

\* handleAccountWithId up to its first SQL statement: the error it returns
\* before reaching one, if any, and whether json decoding gave it.
handleAccountWithId(r) ==
    CASE r.method \in {"GET", "DELETE"} ->
            IF getId(r).err THEN [e |-> Err(getId(r).msg), decode |-> FALSE] ELSE [e |-> NoErr, decode |-> FALSE]
      [] r.method = "PUT" ->
            IF getId(r).err THEN [e |-> Err(getId(r).msg), decode |-> FALSE]
            ELSE IF Decode(r.body).err THEN [e |-> Decode(r.body), decode |-> TRUE]
            ELSE [e |-> NoErr, decode |-> FALSE]
      [] OTHER -> [e |-> MethodNotAllowed(r), decode |-> FALSE]

\* ------------------------------------------------------------------ requests
NoBody == [valid |-> FALSE, firstName |-> "", lastName |-> "", toAccount |-> 0, amount |-> 0]

NameBody(f, l) == [valid |-> TRUE, firstName |-> f, lastName |-> l, toAccount |-> 0, amount |-> 0]
TransferBody(to, amt) == [valid |-> TRUE, firstName |-> "", lastName |-> "", toAccount |-> to, amount |-> amt]

NameBodies == {NameBody("Ann", "Lee"), NameBody("Bob", "Kim")}
TransferBodies == {TransferBody(to, amt) : to \in 1..(MaxAccounts + 1), amt \in 0..MaxAmount}

Methods == {"GET", "POST", "PUT", "DELETE", "PATCH"}

\* The {id} segment: any non-empty string without a slash.
IdStrs ==
    {<<ToString(d)>> : d \in 0..(MaxAccounts + 1)}
        \cup {<<"a">>, <<"1", "a">>, <<"-", "1">>, <<"0", "1">>}

ClaimsOf(v) == [k \in ClaimKeys |-> IF k = "accountNumber" THEN v ELSE NoClaim]

Numbers == 1..MaxAccounts

\* Tokens a client can send: none, garbage, one signed with another key or
\* another method, and well-signed ones with any claims, those createJWT mints
\* among them.
Tokens ==
    {EmptyHeader, Garbage}
        \cup {SignedToken("HS256", "other", ClaimsOf(Num(2 * n))) : n \in Numbers}
        \cup {SignedToken("RS256", JWT_SECRET, ClaimsOf(Num(2 * n))) : n \in Numbers}
        \cup {SignedToken("HS256", JWT_SECRET, ClaimsOf(Num(h))) : h \in 2..(2 * MaxAccounts + 1)}
        \cup {SignedToken("HS256", JWT_SECRET, ClaimsOf(Str)), SignedToken("HS256", JWT_SECRET, NoClaims)}
        \cup {createJWT(NewAccount("", "", n)) : n \in Numbers}

Request(path, method, id, token, body) ==
    [path |-> path, method |-> method, id |-> id, token |-> token, body |-> body]

NoRequest == Request("", "", <<>>, EmptyHeader, NoBody)

AccountRequests ==
    {Request("/account", m, <<>>, EmptyHeader, b) :
        m \in Methods, b \in {NoBody} \cup NameBodies}

AccountWithIdRequests ==
    {Request("/account/{id}", m, i, t, b) :
        m \in Methods, i \in IdStrs, t \in Tokens, b \in {NoBody} \cup NameBodies}

TransferRequests ==
    {Request("/transfer", m, <<>>, EmptyHeader, b) :
        m \in Methods, b \in {NoBody} \cup TransferBodies}

\* A body is read only by POST /account, PUT /account/{id} and PUT /transfer;
\* elsewhere requests that differ in the body alone are one request.
ReadsBody(r) ==
    \/ r.path = "/account" /\ r.method = "POST"
    \/ r.path = "/account/{id}" /\ r.method = "PUT"
    \/ r.path = "/transfer" /\ r.method = "PUT"

Requests ==
    {r \in AccountRequests \cup AccountWithIdRequests \cup TransferRequests :
        ReadsBody(r) \/ r.body = NoBody}

\* The accounts concurrent clients contend for: the first two created.
Contended == {1, 2}

\* The requests of well-behaved clients working on the contended accounts, or
\* creating accounts: a token that carries the number under the name the gate
\* reads, a method of the routing table, a well-formed body.
ConcRequests ==
    {r \in Requests :
        /\ ReadsBody(r) => r.body.valid
        /\ r.path = "/account" => r.method = "POST"
        /\ r.path = "/transfer" =>
              r.method = "PUT" /\ r.body.toAccount \in Contended /\ r.body.amount \in {0, MaxAmount}
        /\ r.path = "/account/{id}" =>
              /\ r.method \in {"GET", "PUT", "DELETE"}
              /\ \E n \in Contended :
                    /\ r.id = <<ToString(n)>>
                    /\ r.token = SignedToken("HS256", JWT_SECRET, ClaimsOf(Num(2 * n)))}

\* ------------------------------------------------------------------ state
EmptyStore == [i \in {} |-> NoAccount]

Init ==
    /\ store = EmptyStore
    /\ nextId = 1
    /\ numberSeq = 1
    /\ console = {}
    /\ pc = [w \in Workers |-> "idle"]
    /\ req = [w \in Workers |-> NoRequest]
    /\ resp = [w \in Workers |-> NoResp]
    /\ invoked = [w \in Workers |-> FALSE]
    /\ herr = [w \in Workers |-> NoErr]
    /\ lostWrite = [w \in Workers |-> FALSE]

\* The row a request writes and reads back: toAccount of a transfer, the path
\* id of an update.
Row(r) == IF r.path = "/transfer" THEN r.body.toAccount ELSE getId(r).id

\* History: lostWrite[u] records that the update statement of u's request
\* matched no row, or that since then and before u's read another request ran
\* the same statement on the same row.  Worker w runs its update statement
\* now and is to read at `label`.
Overwrite(w, label, r) ==
    [u \in Workers |->
        IF u = w THEN Row(r) \notin DOMAIN store
        ELSE lostWrite[u] \/ (pc[u] = label /\ Row(req[u]) = Row(r))]

\* The worker has its response (or has none to give): the request is over.
Done(w, response, e) ==
    /\ pc' = [pc EXCEPT ![w] = "done"]
    /\ resp' = [resp EXCEPT ![w] = response]
    /\ herr' = [herr EXCEPT ![w] = e]

Goto(w, label) ==
    /\ pc' = [pc EXCEPT ![w] = label]
    /\ UNCHANGED <<resp, herr>>

\* /account: handleAccount under makeHandleFunc.
ServeAccount(w, r) ==
    /\ pc[w] = "idle"
    /\ r.path = "/account"
    /\ req' = [req EXCEPT ![w] = r]
    /\ UNCHANGED <<invoked, lostWrite>>
    /\ CASE r.method = "GET" ->
              /\ Done(w, makeHandleFunc(Return(NoErr,
                         [NoResp EXCEPT !.status = 200, !.kind = "accounts",
                                        !.accounts = GetAccounts(store)])), NoErr)
              /\ UNCHANGED <<store, nextId, numberSeq, console>>
         [] r.method = "POST" ->
              IF Decode(r.body).err
              THEN /\ Done(w, makeHandleFunc(Return(Decode(r.body), Empty)), Decode(r.body))
                   /\ UNCHANGED <<store, nextId, numberSeq, console>>
              ELSE LET account == NewAccount(r.body.firstName, r.body.lastName, numberSeq)
                   IN /\ nextId <= MaxAccounts
                      /\ store' = CreateAccount(store, nextId, account)
                      /\ nextId' = nextId + 1
                      /\ numberSeq' = numberSeq + 1
                      /\ console' = console \cup {createJWT(account)}
                      /\ Done(w, makeHandleFunc(Return(NoErr,
                                [NoResp EXCEPT !.status = 200, !.kind = "createAccountRequest",
                                               !.account.firstName = r.body.firstName,
                                               !.account.lastName = r.body.lastName])), NoErr)
         [] OTHER ->
              /\ Done(w, makeHandleFunc(Return(MethodNotAllowed(r), Empty)), NoErr)
              /\ UNCHANGED <<store, nextId, numberSeq, console>>

\* /transfer: handleTransfer under makeHandleFunc, up to and including the
\* update statement of TransferToAccount.
ServeTransfer(w, r) ==
    /\ pc[w] = "idle"
    /\ r.path = "/transfer"
    /\ req' = [req EXCEPT ![w] = r]
    /\ UNCHANGED <<invoked, nextId, numberSeq, console>>
    /\ IF r.method = "PUT"
       THEN IF Decode(r.body).err
            THEN /\ Done(w, makeHandleFunc(Return(Decode(r.body), Empty)), Decode(r.body))
                 /\ UNCHANGED <<store, lostWrite>>
            ELSE /\ store' = TransferStmt(store, r.body)
                 /\ lostWrite' = Overwrite(w, "transferRead", r)
                 /\ Goto(w, "transferRead")
       ELSE /\ Done(w, makeHandleFunc(Return(MethodNotAllowed(r), Empty)), NoErr)
            /\ UNCHANGED <<store, lostWrite>>

\* TransferToAccount: the select after the update, and the response.
TransferRead(w) ==
    /\ pc[w] = "transferRead"
    /\ LET a == GetAccountByID(store, req[w].body.toAccount)
       IN IF a.err
          THEN Done(w, makeHandleFunc(Return(Err(a.msg), Empty)), Err(a.msg))
          ELSE Done(w, makeHandleFunc(Return(NoErr,
                    [NoResp EXCEPT !.status = 200, !.kind = "account", !.account = a.account])), NoErr)
    /\ UNCHANGED <<store, nextId, numberSeq, console, req, invoked, lostWrite>>

\* /account/{id}: withJWTAuth (its lookup of the account is the statement of
\* this step) around makeHandleFunc(handleAccountWithId), the handler up to its
\* first statement.  The store the gate reads is the server's.
ServeAccountWithId(w, r) ==
    /\ pc[w] = "idle"
    /\ r.path = "/account/{id}"
    /\ req' = [req EXCEPT ![w] = r]
    /\ UNCHANGED <<store, nextId, numberSeq, console, lostWrite>>
    /\ LET gate == withJWTAuth(r, store)
           h == handleAccountWithId(r)
       IN CASE gate = "pass" ->
                 /\ invoked' = [invoked EXCEPT ![w] = TRUE]
                 /\ IF h.e.err
                    THEN Done(w, makeHandleFunc(Return(h.e, Empty)),
                              IF h.decode THEN h.e ELSE NoErr)
                    ELSE Goto(w, r.method)
            [] gate = "panic" ->
                 /\ UNCHANGED invoked
                 /\ Done(w, Aborted, NoErr)
            [] OTHER ->
                 /\ UNCHANGED invoked
                 /\ Done(w, permissionDenied, NoErr)

\* handleGetAccountByID: the select, and the response.
GetAccountByIDStep(w) ==
    /\ pc[w] = "GET"
    /\ LET a == GetAccountByID(store, getId(req[w]).id)
       IN IF a.err
          THEN Done(w, makeHandleFunc(Return(Err(a.msg), Empty)), Err(a.msg))
          ELSE Done(w, makeHandleFunc(Return(NoErr,
                    [NoResp EXCEPT !.status = 200, !.kind = "account", !.account = a.account])), NoErr)
    /\ UNCHANGED <<store, nextId, numberSeq, console, req, invoked, lostWrite>>

\* handleUpdateAccount: the update statement of UpdateAccount.
UpdateAccountStep(w) ==
    /\ pc[w] = "PUT"
    /\ store' = UpdateAccountStmt(store,
                    [id |-> getId(req[w]).id, firstName |-> req[w].body.firstName,
                     lastName |-> req[w].body.lastName])
    /\ lostWrite' = Overwrite(w, "updateRead", req[w])
    /\ Goto(w, "updateRead")
    /\ UNCHANGED <<nextId, numberSeq, console, req, invoked>>

\* handleUpdateAccount once UpdateAccount has returned a: on an error it
\* returns nil, having written nothing.
handleUpdateAccountResult(a) ==
    IF a.err THEN Return(NoErr, Empty)
    ELSE Return(NoErr, [NoResp EXCEPT !.status = 200, !.kind = "account", !.account = a.account])

\* UpdateAccount: the select after the update, and the response.
UpdateRead(w) ==
    /\ pc[w] = "updateRead"
    /\ LET a == GetAccountByID(store, getId(req[w]).id)
       IN Done(w, makeHandleFunc(handleUpdateAccountResult(a)),
               IF a.err THEN Err(a.msg) ELSE NoErr)
    /\ UNCHANGED <<store, nextId, numberSeq, console, req, invoked, lostWrite>>

\* handleDeleteAccount: the delete statement, and the response.
DeleteAccountStep(w) ==
    /\ pc[w] = "DELETE"
    /\ LET d == DeleteAccount(store, getId(req[w]).id)
       IN /\ store' = d.st
          /\ IF d.err
             THEN Done(w, makeHandleFunc(Return(Err(d.msg), Empty)), Err(d.msg))
             ELSE Done(w, makeHandleFunc(Return(NoErr,
                       [NoResp EXCEPT !.status = 200, !.kind = "deleted",
                                      !.deleted = getId(req[w]).id])), NoErr)
    /\ UNCHANGED <<nextId, numberSeq, console, req, invoked, lostWrite>>

\* The worker of a finished request ends; the next request gets a fresh one.
Finish(w) ==
    /\ pc[w] = "done"
    /\ pc' = [pc EXCEPT ![w] = "idle"]
    /\ req' = [req EXCEPT ![w] = NoRequest]
    /\ resp' = [resp EXCEPT ![w] = NoResp]
    /\ invoked' = [invoked EXCEPT ![w] = FALSE]
    /\ herr' = [herr EXCEPT ![w] = NoErr]
    /\ lostWrite' = [lostWrite EXCEPT ![w] = FALSE]
    /\ UNCHANGED <<store, nextId, numberSeq, console>>

Step(w) ==
    \/ TransferRead(w)
    \/ GetAccountByIDStep(w)
    \/ UpdateAccountStep(w)
    \/ UpdateRead(w)
    \/ DeleteAccountStep(w)
    \/ Finish(w)

\* A request of the set R arrives at the idle worker w.
Serve(w, R) ==
    /\ pc[w] = "idle"
    /\ \E r \in R :
          \/ ServeAccount(w, r)
          \/ ServeAccountWithId(w, r)
          \/ ServeTransfer(w, r)

\* One request at a time.
Next ==
    \/ Serve(1, Requests)
    \/ Step(1)

Spec == Init /\ [][Next]_vars

\* Two requests at a time.
NextConc ==
    \/ \E w \in Workers : Serve(w, ConcRequests)
    \/ \E w \in Workers : Step(w)

SpecConc == Init /\ [][NextConc]_vars

\* ------------------------------------------------------------------ properties
Finished(w) == pc[w] = "done"
Gated(r) == r.path = "/account/{id}"

\* The step in which the request of worker w arrives.
Arrives(w) == pc[w] = "idle" /\ pc'[w] # "idle"

\* The token is one jwt.Parse accepts under JWT_SECRET.
ValidlySigned(t) == t.form = "jwt" /\ t.alg \in HMACAlgs /\ t.key = JWT_SECRET

\* The path id names a stored account whose number the token's claim equals.
ClaimEqualsNumber(r, st) ==
    /\ r.token.claims["accountNumber"].kind = "num"
    /\ \E i \in DOMAIN st :
          /\ ~Atoi(r.id).err
          /\ Atoi(r.id).val = i
          /\ r.token.claims["accountNumber"].half = 2 * st[i].number

\* The routing table of section 4.2.
RoutingTable(path) ==
    CASE path = "/account" -> {"GET", "POST"}
      [] path = "/account/{id}" -> {"GET", "PUT", "DELETE"}
      [] path = "/transfer" -> {"PUT"}
      [] OTHER -> {}

\* C1: on /account/{id} the handler is invoked only if the token is validly
\* signed and its account-number claim is numerically equal to the number of
\* the account stored under the path id; otherwise the handler is not invoked
\* and the store is unchanged.
C1_HandlerOnlyOnEqualNumber ==
    [][\A w \in Workers :
          (Arrives(w) /\ Gated(req'[w])) =>
              IF ValidlySigned(req'[w].token) /\ ClaimEqualsNumber(req'[w], store)
              THEN invoked'[w]
              ELSE ~invoked'[w] /\ store' = store]_vars

\* C2: every /account/{id} request the gate does not let through ends with
\* the response 403 {"Error":"Invalid token"}.
C2_DeniedIs403 ==
    \A w \in Workers :
        (Finished(w) /\ Gated(req[w]) /\ ~invoked[w]) => resp[w] = permissionDenied

\* C3 (as claimed): an /account/{id} request whose id is not a base-10 integer
\* ends with 400 and the message naming the id.
C3_BadIdIs400 ==
    \A w \in Workers :
        (Finished(w) /\ Gated(req[w]) /\ Atoi(req[w].id).err) =>
            resp[w] = WriteJSONError(400, <<"Invalid id given">> \o req[w].id)

\* C3 (amended): an /account/{id} request whose id is not a base-10 integer
\* never reaches the handler and ends with 403 {"Error":"Invalid token"},
\* whatever its method and token.
C3_BadIdIs403 ==
    \A w \in Workers :
        (Finished(w) /\ Gated(req[w]) /\ Atoi(req[w].id).err) =>
            ~invoked[w] /\ resp[w] = permissionDenied

\* A well-signed token with a numeric claim on a malformed id has been answered.
C3_Witness ==
    /\ Finished(1) /\ Gated(req[1]) /\ Atoi(req[1].id).err
    /\ ValidlySigned(req[1].token)
    /\ req[1].token.claims["accountNumber"].kind = "num"
    /\ req[1].method = "PUT"
    /\ store # EmptyStore

\* C4 (as claimed): on every routed path a method outside the path's row ends
\* with 400 "Method not allowed".
C4_UnroutedIs400 ==
    \A w \in Workers :
        (Finished(w) /\ req[w].method \notin RoutingTable(req[w].path)) =>
            resp[w] = WriteJSONError(400, <<"Method not allowed", req[w].method>>)

\* C4 (amended): a method outside the path's row ends the request in one step
\* that leaves the store unchanged; the response is 400 "Method not allowed"
\* on /account and /transfer, and on /account/{id} when the gate lets the
\* request through; on /account/{id} otherwise it is what the gate gives (403,
\* or no response when the gate panics).
C4_UnroutedIs400BehindGate ==
    [][\A w \in Workers :
          (Arrives(w) /\ req'[w].method \notin RoutingTable(req'[w].path)) =>
              /\ store' = store
              /\ Finished(w)'
              /\ IF Gated(req'[w]) /\ ~invoked'[w]
                 THEN resp'[w] \in {permissionDenied, Aborted}
                 ELSE resp'[w] = WriteJSONError(400, <<"Method not allowed", req'[w].method>>)]_vars

\* An unrouted method has been answered 400 behind the gate, with accounts stored.
C4_Witness ==
    /\ Finished(1) /\ Gated(req[1]) /\ invoked[1]
    /\ req[1].method \notin RoutingTable(req[1].path)
    /\ resp[1].status = 400

\* C5: a handler that got an error from the store or from decoding the body
\* answers 400 with that error's message.
C5_HandlerErrorIs400 ==
    \A w \in Workers :
        (Finished(w) /\ herr[w].err) => resp[w] = WriteJSONError(400, herr[w].msg)

\* C6: run alone, transfer(X, A) on a stored X changes the store in the balance
\* of X only, which becomes A, and answers with the account as getAccount(X)
\* then returns it, balance A; on an X not stored it changes nothing and
\* answers with the not-found error.
C6_TransferOverwrites ==
    [][/\ (pc[1] = "idle" /\ pc'[1] = "transferRead") =>
            LET X == req'[1].body.toAccount
                A == req'[1].body.amount
            IN /\ DOMAIN store' = DOMAIN store
               /\ \A i \in DOMAIN store :
                     /\ i # X => store'[i] = store[i]
                     /\ i = X =>
                           /\ store'[i].balance = A
                           /\ store'[i].id = store[i].id
                           /\ store'[i].number = store[i].number
                           /\ store'[i].firstName = store[i].firstName
                           /\ store'[i].lastName = store[i].lastName
       /\ (pc[1] = "transferRead" /\ pc'[1] = "done") =>
            LET X == req[1].body.toAccount
                A == req[1].body.amount
            IN /\ store' = store
               /\ IF X \in DOMAIN store
                  THEN /\ resp'[1].status = 200
                       /\ resp'[1].kind = "account"
                       /\ resp'[1].account.balance = A
                       /\ GetAccountByID(store', X).account = resp'[1].account
                  ELSE /\ resp'[1] = WriteJSONError(400, NotFoundMsg(X))
                       /\ GetAccountByID(store', X).err]_vars

\* A transfer has changed the balance of one of two stored accounts.
C6_Witness ==
    /\ Finished(1) /\ req[1].path = "/transfer" /\ resp[1].kind = "account"
    /\ Cardinality(DOMAIN store) = 2
    /\ resp[1].account.balance # resp[1].account.number

\* C7: the delete of an id succeeds whether or not a row has the id; it removes
\* that row and no other, so on an id without a row it changes nothing; after
\* it getAccount(id) fails with not-found.
C7_DeleteIdempotent ==
    [][\A w \in Workers :
          (pc[w] = "DELETE" /\ pc'[w] = "done") =>
              LET id == Atoi(req[w].id).val
              IN /\ resp'[w].status = 200 /\ resp'[w].kind = "deleted" /\ resp'[w].deleted = id
                 /\ ~herr'[w].err
                 /\ DOMAIN store' = DOMAIN store \ {id}
                 /\ \A i \in DOMAIN store' : store'[i] = store[i]
                 /\ id \notin DOMAIN store => store' = store
                 /\ GetAccountByID(store', id).err
                 /\ GetAccountByID(store', id).msg = NotFoundMsg(id)]_vars

\* Two deletes of the same id have both succeeded: the second found no row.
C7_Witness ==
    /\ Finished(1) /\ Finished(2)
    /\ req[1].method = "DELETE" /\ req[2].method = "DELETE"
    /\ req[1].id = req[2].id
    /\ resp[1].kind = "deleted" /\ resp[2].kind = "deleted"

\* The request of w is a transfer, or an update, answered with an account.
Returned(w, path) ==
    Finished(w) /\ req[w].path = path /\ req[w].method = "PUT" /\ resp[w].kind = "account"

\* C8 (as claimed): under any interleaving a transfer answered with an
\* account has that account's balance equal to its own amount, and an update
\* answered with an account has its names equal to its own.
C8_ReturnsOwnWrite ==
    \A w \in Workers :
        /\ Returned(w, "/transfer") => resp[w].account.balance = req[w].body.amount
        /\ Returned(w, "/account/{id}") =>
              /\ resp[w].account.firstName = req[w].body.firstName
              /\ resp[w].account.lastName = req[w].body.lastName

\* C8 (amended): the same, provided the request's update statement matched a
\* row and no other transfer to the same account (no other update of the same
\* account) ran its update statement between the request's own update
\* statement and its re-read.
C8_ReturnsOwnWriteUnlessLost ==
    \A w \in Workers :
        ~lostWrite[w] =>
            /\ Returned(w, "/transfer") => resp[w].account.balance = req[w].body.amount
            /\ Returned(w, "/account/{id}") =>
                  /\ resp[w].account.firstName = req[w].body.firstName
                  /\ resp[w].account.lastName = req[w].body.lastName

\* Two requests of the same kind on the same account have both been answered
\* with an account, neither write lost.
C8_Witness ==
    /\ Returned(1, "/account/{id}") /\ Returned(2, "/account/{id}")
    /\ req[1].id = req[2].id
    /\ req[1].body # req[2].body
    /\ ~lostWrite[1] /\ ~lostWrite[2]

\* C9: a token createJWT minted for a stored account, presented on that
\* account's path, reaches the handler; and every validly signed token that
\* carries an account number under the name and of the type createJWT writes
\* is answered by the gate with the 403 response or with the call of the
\* handler.
C9_MintedTokenPasses ==
    \A w \in Workers :
        (Finished(w) /\ Gated(req[w]) /\ ~invoked[w]) =>
            /\ ~ \E i \in DOMAIN store :
                    /\ req[w].id = <<ToString(i)>>
                    /\ req[w].token \in console
                    /\ req[w].token = createJWT(store[i])
            /\ (ValidlySigned(req[w].token) /\ req[w].token.claims["AccountNumber"].kind = "num")
                  => resp[w] = permissionDenied

====
